---- MODULE Spec2Model ----
(***************************************************************************)
(* Calendar-conditions engine and rule-matching engine of the audio        *)
(* siddur (tefilla_rules.py).                                              *)
(*                                                                         *)
(* A civil date is a record [year, month, day] (datetime.date).  A Hebrew  *)
(* date is a record [year, month, day] as pyluach's HebrewDate, with the   *)
(* library's month numbers: 1 = Nisan ... 6 = Elul, 7 = Tishrei ...        *)
(* 11 = Shevat, 12 = Adar (Adar 1 in a leap year), 13 = Adar 2.  Month     *)
(* names are spelled as the source compares them.  None is "None".         *)
(***************************************************************************)
EXTENDS Integers, Sequences, FiniteSets, TLC

\* First and last civil year the clock runs through.
FirstYear == 2023
LastYear == 2027

TefillaTypes == {"shacharis", "mincha", "maariv"}

---------------------------------------------------------------------------
(* datetime.date *)

IsGregorianLeap(y) == (y % 4 = 0 /\ y % 100 # 0) \/ (y % 400 = 0)

DaysInCivilMonth(y, m) ==
    IF m = 2 THEN (IF IsGregorianLeap(y) THEN 29 ELSE 28)
    ELSE IF m \in {4, 6, 9, 11} THEN 30 ELSE 31

DaysBeforeCivilYear(y) ==
    (y - 1) * 365 + ((y - 1) \div 4) - ((y - 1) \div 100) + ((y - 1) \div 400)

RECURSIVE DaysBeforeCivilMonth(_, _)
DaysBeforeCivilMonth(y, m) ==
    IF m = 1 THEN 0
    ELSE DaysBeforeCivilMonth(y, m - 1) + DaysInCivilMonth(y, m - 1)

\* date.toordinal(): 1 for 0001-01-01
toordinal(d) == DaysBeforeCivilYear(d.year) + DaysBeforeCivilMonth(d.year, d.month) + d.day

\* date.fromordinal()
fromordinal(n) ==
    LET y == CHOOSE yy \in ((n \div 366) .. (n \div 365 + 1)) :
                 DaysBeforeCivilYear(yy) < n /\ n <= DaysBeforeCivilYear(yy + 1)
        r == n - DaysBeforeCivilYear(y)
        m == CHOOSE mm \in 1..12 :
                 DaysBeforeCivilMonth(y, mm) < r
                 /\ r <= DaysBeforeCivilMonth(y, mm) + DaysInCivilMonth(y, mm)
    IN [year |-> y, month |-> m, day |-> r - DaysBeforeCivilMonth(y, m)]

date(y, m, d) == [year |-> y, month |-> m, day |-> d]

\* test_date + timedelta(days=1)
NextCivilDay(d) ==
    IF d.day < DaysInCivilMonth(d.year, d.month) THEN [d EXCEPT !.day = d.day + 1]
    ELSE IF d.month < 12 THEN date(d.year, d.month + 1, 1)
    ELSE date(d.year + 1, 1, 1)

\* date.__lt__ and date.__le__
DateLT(a, b) ==
    \/ a.year < b.year
    \/ a.year = b.year /\ a.month < b.month
    \/ a.year = b.year /\ a.month = b.month /\ a.day < b.day

DateLE(a, b) == a = b \/ DateLT(a, b)

---------------------------------------------------------------------------
(* pyluach.dates.HebrewDate *)

IsHebrewLeap(y) == (7 * y + 1) % 19 < 7

\* days from the calendar's epoch to the molad-based new year, before the
\* year-length postponements
ElapsedDays(y) ==
    LET months == (235 * y - 234) \div 19
        parts(months_elapsed) == 12084 + 13753 * months_elapsed
        postponed(day) == IF (3 * (day + 1)) % 7 < 3 THEN day + 1 ELSE day
    IN postponed(29 * months + (parts(months) \div 25920))

NewYearDelay(y) ==
    LET ny0 == ElapsedDays(y - 1)
        ny1 == ElapsedDays(y)
        ny2 == ElapsedDays(y + 1)
    IN IF ny2 - ny1 = 356 THEN 2
       ELSE IF ny1 - ny0 = 382 THEN 1
       ELSE 0

\* ordinal of 1 Tishrei of Hebrew year y
NewYearOrdinal(y) == ElapsedDays(y) + NewYearDelay(y) - 1373427

\* the Hebrew years the civil years FirstYear..LastYear can touch
HebrewYears == (FirstYear + 3756)..(LastYear + 3766)

\* the new years of those years, computed once
NewYearTable == [y \in HebrewYears |-> NewYearOrdinal(y)]

HebrewNewYear(y) == NewYearTable[y]

DaysInHebrewYear(y) ==
    LET between(new_year) == new_year[y + 1] - new_year[y]
    IN between(NewYearTable)

\* the months of Hebrew year y in calendar order, Tishrei first
MonthsOfYear(y) ==
    IF IsHebrewLeap(y) THEN <<7, 8, 9, 10, 11, 12, 13, 1, 2, 3, 4, 5, 6>>
    ELSE <<7, 8, 9, 10, 11, 12, 1, 2, 3, 4, 5, 6>>

DaysInHebrewMonth(y, m) ==
    LET in_year_of(days) ==
            IF m \in {1, 3, 5, 7, 11} THEN 30
            ELSE IF m \in {2, 4, 6, 10, 13} THEN 29
            ELSE IF m = 8 THEN (IF days % 10 = 5 THEN 30 ELSE 29)
            ELSE IF m = 9 THEN (IF days % 10 = 3 THEN 29 ELSE 30)
            ELSE (IF IsHebrewLeap(y) THEN 30 ELSE 29)
    IN in_year_of(DaysInHebrewYear(y))

RECURSIVE MonthStarts(_, _, _)
\* for each month of `months`, the days of year y before it
MonthStarts(y, months, before) ==
    IF months = <<>> THEN <<>>
    ELSE <<before>> \o MonthStarts(y, Tail(months), before + DaysInHebrewMonth(y, Head(months)))

\* month number -> days of the year before that month, computed once per year
MonthStartTable ==
    [y \in (FirstYear + 3757)..(LastYear + 3765) |->
        LET by_number(months, starts) ==
                [m \in 1..13 |->
                    IF \E k \in 1..Len(months) : months[k] = m
                    THEN starts[CHOOSE k \in 1..Len(months) : months[k] = m]
                    ELSE -1]
            of_months(months) == by_number(months, MonthStarts(y, months, 0))
        IN of_months(MonthsOfYear(y))]

DaysBeforeHebrewMonth(y, m) == MonthStartTable[y][m]

HebrewDate(y, m, d) == [year |-> y, month |-> m, day |-> d]

\* HebrewDate -> day number (pyluach goes through the Julian day)
HebrewToOrdinal(h) == HebrewNewYear(h.year) + DaysBeforeHebrewMonth(h.year, h.month) + h.day - 1

\* day number -> HebrewDate
OrdinalToHebrew(n) ==
    LET approx == (100 * (n + 1373427)) \div 36525
        \* r is the day of year y, counted from 0; start[m] the days before month m
        in_month(y, r, m, start) == HebrewDate(y, m, r - start[m] + 1)
        in_year(y, r, start) ==
            in_month(y, r,
                     CHOOSE mm \in 1..13 :
                         /\ start[mm] >= 0
                         /\ start[mm] <= r
                         /\ r < start[mm] + DaysInHebrewMonth(y, mm),
                     start)
        of_year(y, new_year) == in_year(y, n - new_year[y], MonthStartTable[y])
        search(first, new_year) ==
            of_year(CHOOSE yy \in first..(first + 3) :
                        new_year[yy] <= n /\ n < new_year[yy + 1],
                    new_year)
    IN search(approx - 1, NewYearTable)

\* dates.HebrewDate.from_pydate(d)
from_pydate(d) == OrdinalToHebrew(toordinal(d))

\* HebrewDate.to_pydate()
to_pydate(h) == fromordinal(HebrewToOrdinal(h))

\* hebrew_date + n
HebrewAdd(h, n) == OrdinalToHebrew(HebrewToOrdinal(h) + n)

\* hebrew_date.weekday(): 1 = Sunday ... 7 = Saturday
weekday(h) == (HebrewToOrdinal(h) % 7) + 1

\* hebrew_date.month_name()
month_name(h) ==
    CASE h.month = 1 -> "Nisan"
      [] h.month = 2 -> "Iyar"
      [] h.month = 3 -> "Sivan"
      [] h.month = 4 -> "Tammuz"
      [] h.month = 5 -> "Av"
      [] h.month = 6 -> "Elul"
      [] h.month = 7 -> "Tishrei"
      [] h.month = 8 -> "Cheshvan"
      [] h.month = 9 -> "Kislev"
      [] h.month = 10 -> "Tevet"
      [] h.month = 11 -> "Shevat"
      [] h.month = 12 -> (IF IsHebrewLeap(h.year) THEN "Adar 1" ELSE "Adar")
      [] h.month = 13 -> "Adar 2"

\* hebrew_date.replace(day=30) succeeds (no ValueError)
CanReplaceDay30(h) == DaysInHebrewMonth(h.year, h.month) >= 30

---------------------------------------------------------------------------
(* class HebrewCalendar *)

\* 'chol_hamoed' in str(holiday): no holiday name the engine produces
\* contains that substring
HolidayNameHasCholHamoed(holiday) == holiday \in {"chol_hamoed"}

get_holiday_from_hebrew_date(hebrew_date) ==
    LET mn == month_name(hebrew_date)
        day == hebrew_date.day
    IN IF mn = "Tishrei" THEN
           (IF day \in {1, 2} THEN "rosh_hashana"
            ELSE IF day = 10 THEN "yom_kippur"
            ELSE IF day \in 15..21 THEN "sukkot"
            ELSE IF day \in {22, 23} THEN "shmini_atzeret"
            ELSE "None")
       ELSE IF mn = "Nisan" /\ day \in 15..21 THEN "pesach"
       ELSE IF mn = "Sivan" /\ day \in {6, 7} THEN "shavuot"
       ELSE IF mn = "Kislev" THEN (IF day \in 25..30 THEN "chanukkah" ELSE "None")
       ELSE IF mn = "Tevet" THEN (IF day \in {1, 2, 3} THEN "chanukkah" ELSE "None")
       ELSE IF mn \in {"Adar", "Adar 2"} /\ day = 14 THEN "purim"
       ELSE "None"

is_rosh_chodesh_hebrew(hebrew_date) ==
    IF hebrew_date.day = 1 THEN TRUE
    ELSE IF hebrew_date.day = 30 THEN CanReplaceDay30(hebrew_date)
    ELSE FALSE

\* is_chol_hamoed_hebrew with the windows the diaspora calendar has: 17..21
\* Tishrei and 17..20 Nisan
is_chol_hamoed_hebrew_from_17(hebrew_date) ==
    LET mn == month_name(hebrew_date)
        day == hebrew_date.day
    IN IF mn = "Tishrei" /\ 17 <= day /\ day <= 21 THEN TRUE
       ELSE IF mn = "Nisan" /\ 17 <= day /\ day <= 20 THEN TRUE
       ELSE FALSE

is_chol_hamoed_hebrew(hebrew_date) ==
    LET mn == month_name(hebrew_date)
        day == hebrew_date.day
    IN IF mn = "Tishrei" /\ 16 <= day /\ day <= 20 THEN TRUE
       ELSE IF mn = "Nisan" /\ 16 <= day /\ day <= 20 THEN TRUE
       ELSE FALSE

is_fast_day_hebrew(hebrew_date) ==
    <<month_name(hebrew_date), hebrew_date.day>>
        \in {<<"Tevet", 10>>, <<"Av", 9>>, <<"Tammuz", 17>>, <<"Tishrei", 3>>}

is_aseret_yemei_teshuvah(hebrew_date) ==
    IF month_name(hebrew_date) # "Tishrei" THEN FALSE
    ELSE 1 <= hebrew_date.day /\ hebrew_date.day <= 10

\* calculate_sefirat_haomer counting on through 6 Sivan
calculate_sefirat_haomer_through_6_sivan(hebrew_date) ==
    LET mn == month_name(hebrew_date)
        day == hebrew_date.day
    IN IF mn = "Nisan" THEN (IF day >= 16 THEN day - 15 ELSE 0)
       ELSE IF mn = "Iyar" THEN 15 + day
       ELSE IF mn = "Sivan" THEN (IF day <= 6 THEN 44 + day ELSE 0)
       ELSE 0

\* calculate_sefirat_haomer taking Nisan for a month of 29 days
calculate_sefirat_haomer_short_nisan(hebrew_date) ==
    LET mn == month_name(hebrew_date)
        day == hebrew_date.day
    IN IF mn = "Nisan" THEN (IF day >= 16 THEN day - 15 ELSE 0)
       ELSE IF mn = "Iyar" THEN 14 + day
       ELSE IF mn = "Sivan" THEN (IF day <= 5 THEN 43 + day ELSE 0)
       ELSE 0

calculate_sefirat_haomer(hebrew_date) ==
    LET mn == month_name(hebrew_date)
        day == hebrew_date.day
    IN IF mn = "Nisan" THEN (IF day >= 16 THEN day - 15 ELSE 0)
       ELSE IF mn = "Iyar" THEN 15 + day
       ELSE IF mn = "Sivan" THEN (IF day <= 5 THEN 44 + day ELSE 0)
       ELSE 0

\* is_mashiv_haruach_period with the insertion kept through all of 15 Nisan
is_mashiv_haruach_period_through_15(hebrew_date, tefilla_type) ==
    LET mn == month_name(hebrew_date)
        day == hebrew_date.day
    IN IF mn = "Tishrei" /\ day >= 22
          /\ ((day = 22 /\ tefilla_type = "maariv") \/ day > 22) THEN TRUE
       ELSE IF mn \in {"Cheshvan", "Kislev", "Tevet", "Shevat", "Adar", "Adar 2"} THEN TRUE
       ELSE IF mn = "Nisan" /\ day <= 15 THEN TRUE
       ELSE FALSE

is_mashiv_haruach_period(hebrew_date, tefilla_type) ==
    LET mn == month_name(hebrew_date)
        day == hebrew_date.day
    IN IF mn = "Tishrei" /\ day >= 22
          /\ ((day = 22 /\ tefilla_type = "maariv") \/ day > 22) THEN TRUE
       ELSE IF mn \in {"Cheshvan", "Kislev", "Tevet", "Shevat", "Adar", "Adar 2"} THEN TRUE
       ELSE IF mn = "Nisan" /\ day = 15 /\ tefilla_type \in {"shacharis", "mincha"} THEN FALSE
       ELSE IF mn = "Nisan" /\ day = 15 /\ tefilla_type = "maariv" THEN TRUE
       ELSE IF mn = "Nisan" /\ day <= 14 THEN TRUE
       ELSE FALSE

\* veten_tal_start without the rule for the years divisible by 400
veten_tal_start_no_400(year) ==
    LET upcoming_year == year + 1
        is_leap_year == upcoming_year % 4 = 0 /\ upcoming_year % 100 # 0
    IN date(year, 12, IF is_leap_year THEN 5 ELSE 4)

\* date(year, 12, start_day)
veten_tal_start(year) ==
    LET upcoming_year == year + 1
        is_leap_year == (upcoming_year % 4 = 0 /\ upcoming_year % 100 # 0)
                        \/ (upcoming_year % 400 = 0)
    IN date(year, 12, IF is_leap_year THEN 5 ELSE 4)

\* dates.HebrewDate(hebrew_year, 7, 15).to_pydate() for the Hebrew year of the date
pesach_gregorian(gregorian_date) ==
    LET hebrew_year == from_pydate(gregorian_date).year
    IN to_pydate(HebrewDate(hebrew_year, 7, 15))

is_veten_tal_umattar_period(gregorian_date) ==
    /\ DateLE(veten_tal_start(gregorian_date.year), gregorian_date)
    /\ DateLT(gregorian_date, pesach_gregorian(gregorian_date))

\* calculate_hallel_type with the last omer days counted from day 34
calculate_hallel_type_from_34(hebrew_date, holiday, rosh_chodesh, sefirat_haomer) ==
    IF holiday \in {"pesach", "shavuot", "sukkot", "chanukkah"} THEN "full"
    ELSE IF rosh_chodesh \/ (holiday # "None" /\ HolidayNameHasCholHamoed(holiday)) THEN "partial"
    ELSE IF sefirat_haomer > 0 /\ sefirat_haomer < 33 THEN "none"
    ELSE IF sefirat_haomer > 33 THEN "full"
    ELSE "none"

\* calculate_hallel_type with the partial Hallel of a new month kept for the
\* first of the month only
calculate_hallel_type_first_of_month(hebrew_date, holiday, rosh_chodesh, sefirat_haomer) ==
    IF holiday \in {"pesach", "shavuot", "sukkot", "chanukkah"} THEN "full"
    ELSE IF (rosh_chodesh /\ hebrew_date.day = 1)
            \/ (holiday # "None" /\ HolidayNameHasCholHamoed(holiday)) THEN "partial"
    ELSE IF sefirat_haomer > 0 /\ sefirat_haomer < 33 THEN "none"
    ELSE IF sefirat_haomer >= 33 THEN "full"
    ELSE "none"

calculate_hallel_type(hebrew_date, holiday, rosh_chodesh, sefirat_haomer) ==
    IF holiday \in {"pesach", "shavuot", "sukkot", "chanukkah"} THEN "full"
    ELSE IF rosh_chodesh \/ (holiday # "None" /\ HolidayNameHasCholHamoed(holiday)) THEN "partial"
    ELSE IF sefirat_haomer > 0 /\ sefirat_haomer < 33 THEN "none"
    ELSE IF sefirat_haomer >= 33 THEN "full"
    ELSE "none"

\* calculate_full_shmoneh_esreh with shmini_atzeret left out of the major holidays
calculate_full_shmoneh_esreh_five_holidays(day_of_week, holiday) ==
    IF day_of_week # "weekday" THEN FALSE
    ELSE IF holiday \in {"pesach", "shavuot", "sukkot", "rosh_hashana", "yom_kippur"} THEN FALSE
    ELSE TRUE

calculate_full_shmoneh_esreh(day_of_week, holiday) ==
    IF day_of_week # "weekday" THEN FALSE
    ELSE IF holiday \in {"pesach", "shavuot", "sukkot", "rosh_hashana",
                         "yom_kippur", "shmini_atzeret"} THEN FALSE
    ELSE TRUE

\* query_hebrew_date without the nightfall correction
query_hebrew_date_same_day(target_date, tefilla_type) == from_pydate(target_date)

\* the Hebrew date get_date_conditions works with: the next Hebrew day for maariv
query_hebrew_date(target_date, tefilla_type) ==
    LET at_service(hebrew_date) ==
            IF tefilla_type = "maariv" THEN HebrewAdd(hebrew_date, 1)
            ELSE hebrew_date
    IN at_service(from_pydate(target_date))

get_date_conditions(target_date, tefilla_type) ==
    LET DateConditions(hebrew_date, day_of_week, holiday, rosh_chodesh, sefirat_haomer) ==
            [day_of_week |-> day_of_week,
             holiday |-> holiday,
             rosh_chodesh |-> rosh_chodesh,
             chol_hamoed |-> is_chol_hamoed_hebrew(hebrew_date),
             fast_day |-> is_fast_day_hebrew(hebrew_date),
             aseret_yemei_teshuvah |-> is_aseret_yemei_teshuvah(hebrew_date),
             sefirat_haomer |-> sefirat_haomer,
             mashiv_haruach |-> is_mashiv_haruach_period(hebrew_date, tefilla_type),
             veten_tal_umattar |-> is_veten_tal_umattar_period(target_date),
             hallel_type |-> calculate_hallel_type(hebrew_date, holiday, rosh_chodesh,
                                                   sefirat_haomer),
             full_shmoneh_esreh |-> calculate_full_shmoneh_esreh(day_of_week, holiday)]
        on_hebrew_date(hebrew_date) ==
            DateConditions(hebrew_date,
                           IF weekday(hebrew_date) = 7 THEN "shabbat" ELSE "weekday",
                           get_holiday_from_hebrew_date(hebrew_date),
                           is_rosh_chodesh_hebrew(hebrew_date),
                           calculate_sefirat_haomer(hebrew_date))
    IN on_hebrew_date(query_hebrew_date(target_date, tefilla_type))

---------------------------------------------------------------------------
(* Python values carried by the conditions of an annotation *)

PyStr(s) == [kind |-> "str", s |-> s]
PyBool(b) == [kind |-> "bool", b |-> b]
PyInt(n) == [kind |-> "int", n |-> n]
PyNone == [kind |-> "none"]
PyList(items) == [kind |-> "list", items |-> items]
PyDict(d) == [kind |-> "dict", d |-> d]

\* an Optional[str] field of the snapshot as a Python value
OptStr(s) == IF s = "None" THEN PyNone ELSE PyStr(s)

\* bool is a subclass of int: True == 1
IsNumber(v) == v.kind \in {"bool", "int"}
NumberOf(v) == IF v.kind = "bool" THEN (IF v.b THEN 1 ELSE 0) ELSE v.n

\* a == b
PyEq(a, b) ==
    IF IsNumber(a) /\ IsNumber(b) THEN NumberOf(a) = NumberOf(b)
    ELSE IF a.kind = "str" /\ b.kind = "str" THEN a.s = b.s
    ELSE IF a.kind = "none" /\ b.kind = "none" THEN TRUE
    ELSE FALSE

\* a in lst
PyIn(a, lst) == \E i \in 1..Len(lst.items) : PyEq(a, lst.items[i])

\* bool(v)
Truthy(v) ==
    CASE v.kind = "bool" -> v.b
      [] v.kind = "int" -> v.n # 0
      [] v.kind = "str" -> v.s # ""
      [] v.kind = "none" -> FALSE
      [] v.kind = "list" -> Len(v.items) > 0
      [] v.kind = "dict" -> DOMAIN v.d # {}

\* d.get(key, default)
DictGet(v, key, default) == IF key \in DOMAIN v.d THEN v.d[key] ELSE default

---------------------------------------------------------------------------
(* class TefillaRuleEngine *)

ChunkAnnotation(name, tefilla_types, conditions) ==
    [name |-> name, tefilla_types |-> tefilla_types, conditions |-> conditions]

\* one item of a conditions dict
Cond(key, value) == [key |-> key, value |-> value]

\* condition_matches letting a key it does not know pass
condition_matches_fail_open(condition_key, condition_value, date_conditions) ==
    CASE condition_key = "mashiv_haruach" ->
            PyEq(PyBool(date_conditions.mashiv_haruach), condition_value)
      [] condition_key = "veten_tal_umattar" ->
            PyEq(PyBool(date_conditions.veten_tal_umattar), condition_value)
      [] condition_key = "day_of_week" ->
            PyEq(PyStr(date_conditions.day_of_week), condition_value)
      [] condition_key = "holiday" ->
            IF condition_value.kind = "list"
            THEN PyIn(OptStr(date_conditions.holiday), condition_value)
            ELSE PyEq(OptStr(date_conditions.holiday), condition_value)
      [] condition_key = "rosh_chodesh" ->
            PyEq(PyBool(date_conditions.rosh_chodesh), condition_value)
      [] condition_key = "chol_hamoed" ->
            PyEq(PyBool(date_conditions.chol_hamoed), condition_value)
      [] condition_key = "fast_day" ->
            PyEq(PyBool(date_conditions.fast_day), condition_value)
      [] condition_key = "aseret_yemei_teshuvah" ->
            PyEq(PyBool(date_conditions.aseret_yemei_teshuvah), condition_value)
      [] condition_key = "sefirat_haomer" ->
            IF IsNumber(condition_value)
            THEN PyEq(PyInt(date_conditions.sefirat_haomer), condition_value)
            ELSE IF condition_value.kind = "dict"
            THEN DictGet(condition_value, "min", 0) <= date_conditions.sefirat_haomer
                 /\ date_conditions.sefirat_haomer <= DictGet(condition_value, "max", 49)
            ELSE FALSE
      [] condition_key = "hallel_type" ->
            IF condition_value.kind = "list"
            THEN PyIn(PyStr(date_conditions.hallel_type), condition_value)
            ELSE PyEq(PyStr(date_conditions.hallel_type), condition_value)
      [] condition_key = "full_shmoneh_esreh" ->
            PyEq(PyBool(date_conditions.full_shmoneh_esreh), condition_value)
      [] condition_key = "always" -> Truthy(condition_value)
      [] OTHER -> TRUE

\* the truthiness of what _condition_matches returns
condition_matches(condition_key, condition_value, date_conditions) ==
    CASE condition_key = "mashiv_haruach" ->
            PyEq(PyBool(date_conditions.mashiv_haruach), condition_value)
      [] condition_key = "veten_tal_umattar" ->
            PyEq(PyBool(date_conditions.veten_tal_umattar), condition_value)
      [] condition_key = "day_of_week" ->
            PyEq(PyStr(date_conditions.day_of_week), condition_value)
      [] condition_key = "holiday" ->
            IF condition_value.kind = "list"
            THEN PyIn(OptStr(date_conditions.holiday), condition_value)
            ELSE PyEq(OptStr(date_conditions.holiday), condition_value)
      [] condition_key = "rosh_chodesh" ->
            PyEq(PyBool(date_conditions.rosh_chodesh), condition_value)
      [] condition_key = "chol_hamoed" ->
            PyEq(PyBool(date_conditions.chol_hamoed), condition_value)
      [] condition_key = "fast_day" ->
            PyEq(PyBool(date_conditions.fast_day), condition_value)
      [] condition_key = "aseret_yemei_teshuvah" ->
            PyEq(PyBool(date_conditions.aseret_yemei_teshuvah), condition_value)
      [] condition_key = "sefirat_haomer" ->
            IF IsNumber(condition_value)
            THEN PyEq(PyInt(date_conditions.sefirat_haomer), condition_value)
            ELSE IF condition_value.kind = "dict"
            THEN DictGet(condition_value, "min", 0) <= date_conditions.sefirat_haomer
                 /\ date_conditions.sefirat_haomer <= DictGet(condition_value, "max", 49)
            ELSE FALSE
      [] condition_key = "hallel_type" ->
            IF condition_value.kind = "list"
            THEN PyIn(PyStr(date_conditions.hallel_type), condition_value)
            ELSE PyEq(PyStr(date_conditions.hallel_type), condition_value)
      [] condition_key = "full_shmoneh_esreh" ->
            PyEq(PyBool(date_conditions.full_shmoneh_esreh), condition_value)
      [] condition_key = "always" -> Truthy(condition_value)
      [] OTHER -> FALSE

RECURSIVE conditions_loop_first_match(_, _, _)
\* conditions_loop returning on the first condition that matches
conditions_loop_first_match(conditions, i, date_conditions) ==
    IF i > Len(conditions) THEN TRUE
    ELSE IF condition_matches(conditions[i].key, conditions[i].value, date_conditions)
    THEN TRUE
    ELSE conditions_loop_first_match(conditions, i + 1, date_conditions)

RECURSIVE conditions_loop(_, _, _)
\* the for loop over annotation.conditions.items(), from item i on
conditions_loop(conditions, i, date_conditions) ==
    IF i > Len(conditions) THEN TRUE
    ELSE IF ~condition_matches(conditions[i].key, conditions[i].value, date_conditions)
    THEN FALSE
    ELSE conditions_loop(conditions, i + 1, date_conditions)

chunk_matches_conditions(annotation, tefilla_type, date_conditions) ==
    IF tefilla_type \notin annotation.tefilla_types THEN FALSE
    ELSE conditions_loop(annotation.conditions, 1, date_conditions)

RECURSIVE dict_by_name(_, _, _)
\* {ann.name: ann for ann in chunk_annotations}: a dict keeps the position of
\* the first insertion of a key and the value of the last
dict_by_name(anns, i, acc) ==
    IF i > Len(anns) THEN acc
    ELSE IF \E j \in 1..Len(acc) : acc[j].name = anns[i].name
    THEN dict_by_name(anns, i + 1,
             [j \in 1..Len(acc) |-> IF acc[j].name = anns[i].name THEN anns[i] ELSE acc[j]])
    ELSE dict_by_name(anns, i + 1, Append(acc, anns[i]))

RECURSIVE select_loop(_, _, _, _, _)
\* the for loop of build_tefilla over self.chunk_annotations.items(), from item i on
select_loop(items, i, tefilla_type, date_conditions, selected_chunks) ==
    IF i > Len(items) THEN selected_chunks
    ELSE select_loop(items, i + 1, tefilla_type, date_conditions,
             IF chunk_matches_conditions(items[i], tefilla_type, date_conditions)
             THEN Append(selected_chunks, items[i].name)
             ELSE selected_chunks)

build_tefilla(items, tefilla_type, target_date) ==
    select_loop(items, 1, tefilla_type, get_date_conditions(target_date, tefilla_type), <<>>)

---------------------------------------------------------------------------
(* The annotations an engine may be constructed with *)

\* longest annotation list tried when the registry varies
MaxAnnotations == 2

AllTypes == {"shacharis", "mincha", "maariv"}

\* annotations in the style of TEXT_MAP and of the unit tests
AnnotationPool ==
    << ChunkAnnotation("test_weekday", AllTypes, <<Cond("day_of_week", PyStr("weekday"))>>),
       ChunkAnnotation("aleinu", AllTypes, <<Cond("always", PyBool(TRUE))>>),
       ChunkAnnotation("test_mincha_only", {"mincha"}, <<Cond("day_of_week", PyStr("weekday"))>>),
       ChunkAnnotation("hallel", {"shacharis"},
           <<Cond("hallel_type", PyList(<<PyStr("full"), PyStr("partial")>>)),
             Cond("day_of_week", PyStr("weekday"))>>),
       ChunkAnnotation("al_hanissim", AllTypes,
           <<Cond("holiday", PyList(<<PyStr("chanukkah"), PyStr("purim")>>))>>) >>

\* annotations whose conditions carry lists, and keys the engine has no
\* branch for ('season' is the example of the ChunkAnnotation comment)
ConditionPool ==
    << ChunkAnnotation("test_holiday_list", AllTypes,
           <<Cond("holiday", PyList(<<PyStr("pesach"), PyStr("shavuot"), PyStr("sukkot")>>))>>),
       ChunkAnnotation("test_hallel_list", AllTypes,
           <<Cond("hallel_type", PyList(<<PyStr("full"), PyStr("partial")>>))>>),
       ChunkAnnotation("any_day", AllTypes,
           <<Cond("day_of_week", PyList(<<PyStr("weekday"), PyStr("shabbat")>>))>>),
       ChunkAnnotation("any_rosh_chodesh", AllTypes,
           <<Cond("rosh_chodesh", PyList(<<PyBool(TRUE), PyBool(FALSE)>>))>>),
       ChunkAnnotation("first_omer_days", {"maariv"},
           <<Cond("sefirat_haomer", PyList(<<PyInt(1), PyInt(2), PyInt(3)>>))>>),
       ChunkAnnotation("summer", AllTypes, <<Cond("season", PyStr("summer"))>>),
       ChunkAnnotation("yom_tov", AllTypes,
           <<Cond("always", PyBool(TRUE)), Cond("yom_tov", PyBool(TRUE))>>),
       ChunkAnnotation("parsha", {"shacharis"},
           <<Cond("parsha", PyList(<<PyStr("noach")>>)), Cond("day_of_week", PyStr("shabbat"))>>),
       ChunkAnnotation("aleinu", AllTypes, <<Cond("always", PyBool(TRUE))>>) >>

\* the names of a list of annotations
NamesOf(anns) == [i \in 1..Len(anns) |-> anns[i].name]

\* lists of distinct pool positions, of at most MaxAnnotations entries
RECURSIVE ShapesUpTo(_)
ShapesUpTo(n) ==
    IF n = 0 THEN {<<>>}
    ELSE LET shorter == ShapesUpTo(n - 1)
         IN shorter \cup
            { Append(s, k) : <<s, k>> \in
                { p \in shorter \X (1..Len(AnnotationPool)) :
                    /\ Len(p[1]) = n - 1
                    /\ \A i \in 1..Len(p[1]) : p[1][i] # p[2] } }

RegistryShapes == ShapesUpTo(MaxAnnotations)

RegistryOf(shape) == [i \in 1..Len(shape) |-> AnnotationPool[shape[i]]]

---------------------------------------------------------------------------
(* The build pipeline: the functions of TefillaBuilder and of the chunk cache *)

\* _generate_conditions_checksum: the conditions without fast_day and
\* sefirat_haomer, serialised with sorted keys and hashed. The hash stands
\* for the serialisation it is taken of (md5 is taken to be free of
\* collisions on the snapshots).
generate_conditions_checksum(conditions) ==
    [md5 |-> [k \in DOMAIN conditions \ {"fast_day", "sefirat_haomer"} |-> conditions[k]]]

\* _generate_meaningful_filename: the parts, which the code joins with '_'
generate_meaningful_filename(tefilla_type, conditions) ==
    LET part(present, name) == IF present THEN <<name>> ELSE <<>>
    IN <<tefilla_type>>
       \o <<IF conditions.day_of_week = "shabbat" THEN "shabbat" ELSE "weekday">>
       \o part(conditions.holiday \in {"rosh_hashana", "yom_kippur", "sukkot",
                   "shmini_atzeret", "pesach", "shavuot", "chanukkah", "purim"},
               conditions.holiday)
       \o part(conditions.rosh_chodesh, "rosh_chodesh")
       \o part(conditions.chol_hamoed, "chol_hamoed")
       \o part(conditions.aseret_yemei_teshuvah, "aseret_yemei_teshuvah")
       \o part(conditions.hallel_type # "none", "hallel_" \o conditions.hallel_type)
       \o part(conditions.mashiv_haruach, "mashiv_haruach")
       \o part(conditions.veten_tal_umattar, "veten_tal_umattar")

\* f"{meaningful_name}_{conditions_checksum}", the cache key and, with the
\* directory and '.mp3' around it, the output file
CacheKey(meaningful_name, conditions_checksum) ==
    [meaningful_name |-> meaningful_name, conditions_checksum |-> conditions_checksum]

RECURSIVE cache_loop(_, _, _, _, _)
\* the for loop over self.tefilla_cache.values(), from entry i on: the file of
\* the first entry with this checksum and service type whose file exists, as
\* a list of one path, or the empty list when the loop ends without a return
cache_loop(cache, i, files, conditions_checksum, tefilla_type) ==
    IF i > Len(cache) THEN <<>>
    ELSE IF /\ cache[i].conditions_checksum = conditions_checksum
            /\ cache[i].tefilla_type = tefilla_type
            /\ cache[i].output_file \in DOMAIN files
    THEN <<cache[i].output_file>>
    ELSE cache_loop(cache, i + 1, files, conditions_checksum, tefilla_type)

\* the two tests of build_tefilla for a file to return without building,
\* with the test of force_rebuild turned round
existing_tefilla_forced(cache, files, force, conditions_checksum, tefilla_type, output_file) ==
    IF force
    THEN LET reused == cache_loop(cache, 1, files, conditions_checksum, tefilla_type)
         IN IF reused # <<>> THEN reused
            ELSE IF output_file \in DOMAIN files THEN <<output_file>>
            ELSE <<>>
    ELSE <<>>

\* the two tests of build_tefilla for a file to return without building
existing_tefilla(cache, files, force, conditions_checksum, tefilla_type, output_file) ==
    IF ~force
    THEN LET reused == cache_loop(cache, 1, files, conditions_checksum, tefilla_type)
         IN IF reused # <<>> THEN reused
            ELSE IF output_file \in DOMAIN files THEN <<output_file>>
            ELSE <<>>
    ELSE <<>>

\* self.tefilla_cache[cache_key] = entry
CacheSet(cache, entry) ==
    IF \E j \in 1..Len(cache) : cache[j].cache_key = entry.cache_key
    THEN [j \in 1..Len(cache) |-> IF cache[j].cache_key = entry.cache_key THEN entry ELSE cache[j]]
    ELSE Append(cache, entry)

\* chunk_paths: the chunks named in the chunk directory whose file exists,
\* in the order of chunk_list, and after them the missing ones, in the order
\* they are processed
chunk_paths_of(chunk_list, directory, cache_files) ==
    LET exists(chunk_name) == chunk_name \in DOMAIN directory /\ chunk_name \in DOMAIN cache_files
        missing(chunk_name) == ~exists(chunk_name)
    IN SelectSeq(chunk_list, exists) \o SelectSeq(chunk_list, missing)

\* the chunks of chunk_list that process_chunk is called for
missing_chunks_of(chunk_list, directory, cache_files) ==
    LET missing(chunk_name) ==
            ~(chunk_name \in DOMAIN directory /\ chunk_name \in DOMAIN cache_files)
    IN SelectSeq(chunk_list, missing)

\* TEXT_MAP[chunk_name]["text"], the same for every chunk while the builder runs
TextOf == "v1"

\* d[key] = value
DictSet(d, key, value) ==
    [k \in DOMAIN d \cup {key} |-> IF k = key THEN value ELSE d[k]]

\* d after d[name] = value for every name of the list
DictSetAll(d, names, value) ==
    [k \in DOMAIN d \cup {names[j] : j \in 1..Len(names)} |->
        IF \E j \in 1..Len(names) : names[j] = k THEN value ELSE d[k]]

\* ChunkProcessor.clean_text: the marks are removed
clean_text(text) == IF text = "v1_marks" THEN "v1" ELSE text

\* ChunkCache.calculate_text_checksum
calculate_text_checksum(text) == [sha256 |-> text]

---------------------------------------------------------------------------
(* State *)

VARIABLES
    annotations,        \* the list the engine was constructed with
    chunk_annotations,  \* TefillaRuleEngine.chunk_annotations, in dict order
    op,                 \* the last call: "init", "get_date_conditions", "build_tefilla", ...
    tefilla_type,       \* its service type
    target_date,        \* its civil date
    hebrew_date,        \* the Hebrew date it worked with
    date_conditions,    \* the DateConditions it computed
    selected_chunks,    \* the list build_tefilla returned
    veten_tal_start_date,  \* the start date _is_veten_tal_umattar_period computed
    force_rebuild,      \* TefillaBuilder.build_tefilla: the force_rebuild argument
    tefilla_cache,      \* TefillaBuilder.tefilla_cache, in dict order
    output_files,       \* the files of output_dir and the chunks each was combined from
    build_result,       \* what TefillaBuilder.build_tefilla returned or raised
    directory,          \* ChunkCache: the directory file, chunk name -> checksum
    cache_files,        \* ChunkCache: the mp3 files of cache_dir and the text each holds
    process_pc,         \* ChunkProcessor.process_chunk: where the running call stands
    process_args,       \* its key and text
    is_playing,         \* SiddurUI.is_playing
    current_process,    \* SiddurUI.current_process
    workers,            \* the threads play_tefilla started and where each stands
    ui_event            \* the last thing that happened in the UI

engine_vars == <<annotations, chunk_annotations, op, tefilla_type, target_date,
                 hebrew_date, date_conditions, selected_chunks>>

rain_vars == <<veten_tal_start_date>>

builder_vars == <<force_rebuild, tefilla_cache, output_files, build_result>>

chunk_vars == <<directory, cache_files, process_pc, process_args>>

ui_vars == <<is_playing, current_process, workers, ui_event>>

vars == <<engine_vars, rain_vars, builder_vars, chunk_vars, ui_vars>>

\* DateConditions with the defaults of the dataclass
DefaultDateConditions ==
    [day_of_week |-> "weekday", holiday |-> "None", rosh_chodesh |-> FALSE,
     chol_hamoed |-> FALSE, fast_day |-> FALSE, aseret_yemei_teshuvah |-> FALSE,
     sefirat_haomer |-> 0, mashiv_haruach |-> FALSE, veten_tal_umattar |-> FALSE,
     hallel_type |-> "none", full_shmoneh_esreh |-> FALSE]

\* TefillaBuilder.__init__ with no directory.json and an empty output_dir
BuilderConstructed ==
    /\ force_rebuild = FALSE
    /\ tefilla_cache = <<>>
    /\ output_files = [f \in {} |-> f]
    /\ build_result = [path |-> <<>>, built |-> FALSE, raised |-> "None"]

\* ChunkProcessor.__init__ and ChunkCache.__init__ with an empty cache_dir
ProcessorConstructed ==
    /\ directory = [k \in {} |-> k]
    /\ cache_files = [k \in {} |-> k]
    /\ process_pc = "idle"
    /\ process_args = "None"

\* SiddurUI.__init__
UIConstructed ==
    /\ current_process = "None"
    /\ is_playing = FALSE
    /\ workers = <<>>
    /\ ui_event = "init"

\* TefillaRuleEngine.__init__, no query made yet; the first service asked
\* about is shacharis of `start`
Constructed(anns, start) ==
    /\ annotations = anns
    /\ chunk_annotations = dict_by_name(anns, 1, <<>>)
    /\ op = "init"
    /\ tefilla_type = "None"
    /\ target_date = start
    /\ hebrew_date = from_pydate(start)
    /\ date_conditions = DefaultDateConditions
    /\ selected_chunks = <<>>
    /\ veten_tal_start_date = "None"
    /\ BuilderConstructed
    /\ ProcessorConstructed
    /\ UIConstructed

Init == Constructed(AnnotationPool, date(FirstYear, 1, 1))

InitRegistries ==
    \E shape \in RegistryShapes : Constructed(RegistryOf(shape), date(LastYear, 1, 1))

\* HebrewCalendar.get_date_conditions(d, t)
GetDateConditions(d, t) ==
    /\ d.year <= LastYear
    /\ op' = "get_date_conditions"
    /\ tefilla_type' = t
    /\ target_date' = d
    /\ hebrew_date' = query_hebrew_date(d, t)
    /\ date_conditions' = get_date_conditions(d, t)
    /\ selected_chunks' = <<>>
    /\ UNCHANGED <<annotations, chunk_annotations>>
    /\ UNCHANGED <<rain_vars, builder_vars, chunk_vars, ui_vars>>

\* TefillaRuleEngine.build_tefilla(t, d)
BuildTefilla(t, d) ==
    /\ d.year <= LastYear
    /\ op' = "build_tefilla"
    /\ tefilla_type' = t
    /\ target_date' = d
    /\ hebrew_date' = query_hebrew_date(d, t)
    /\ date_conditions' = get_date_conditions(d, t)
    /\ selected_chunks' = build_tefilla(chunk_annotations, t, d)
    /\ UNCHANGED <<annotations, chunk_annotations>>
    /\ UNCHANGED <<rain_vars, builder_vars, chunk_vars, ui_vars>>

\* the service that follows service t of civil date d in the day's order
\* shacharis, mincha, maariv (get_current_tefilla_type by the hour)
NextServiceType(t) ==
    IF t \in {"None", "maariv"} THEN "shacharis"
    ELSE IF t = "shacharis" THEN "mincha"
    ELSE "maariv"

NextServiceDate(t, d) == IF t = "maariv" THEN NextCivilDay(d) ELSE d

\* the services are asked about in chronological order
Next ==
    \E t \in {NextServiceType(tefilla_type)} :
        \E d \in {NextServiceDate(tefilla_type, target_date)} :
            \/ GetDateConditions(d, t)
            \/ BuildTefilla(t, d)

Spec == Init /\ [][Next]_vars

\* an engine constructed with the annotations of ConditionPool
InitConditions == Constructed(ConditionPool, date(LastYear, 1, 1))

SpecConditions == InitConditions /\ [][Next]_vars

SpecRegistries == InitRegistries /\ [][Next]_vars

---------------------------------------------------------------------------
(* The engine called directly, with any string for the service type *)

\* a service name that is not one of the three the system knows
UnknownTypes == {"musaf"}

\* a caller of the public methods, which take tefilla_type: str
NextAnyService ==
    \E t \in TefillaTypes \cup UnknownTypes :
        \E d \in {target_date, NextCivilDay(target_date)} :
            \/ GetDateConditions(d, t)
            \/ BuildTefilla(t, d)

SpecAnyService == Constructed(AnnotationPool, date(LastYear, 1, 1)) /\ [][NextAnyService]_vars

---------------------------------------------------------------------------
(* The start of the rain insertion, over a long range of civil years *)

\* first and last civil year the start date is computed for
RainFirstYear == 1990
RainLastYear == 2100

InitRain ==
    /\ annotations = <<>>
    /\ chunk_annotations = <<>>
    /\ op = "init"
    /\ tefilla_type = "None"
    /\ target_date \in {date(y, 12, 1) : y \in RainFirstYear..RainLastYear}
    /\ hebrew_date = "None"
    /\ date_conditions = DefaultDateConditions
    /\ selected_chunks = <<>>
    /\ veten_tal_start_date = "None"
    /\ BuilderConstructed
    /\ ProcessorConstructed
    /\ UIConstructed

\* the first statements of _is_veten_tal_umattar_period(target_date), up to
\* and including the assignment of veten_tal_start
VetenTalStart ==
    /\ op = "init"
    /\ op' = "veten_tal_start"
    /\ veten_tal_start_date' = veten_tal_start(target_date.year)
    /\ UNCHANGED <<annotations, chunk_annotations, tefilla_type, target_date,
                   hebrew_date, date_conditions, selected_chunks>>
    /\ UNCHANGED <<builder_vars, chunk_vars, ui_vars>>

NextRain == VetenTalStart

SpecRain == InitRain /\ [][NextRain]_vars

---------------------------------------------------------------------------
(* The window: SiddurUI.play_tefilla, its worker threads and stop_playback *)

\* most threads play_tefilla starts in one run of the window
MaxThreads == 3

\* where a worker thread stands in _build_and_play_tefilla
WorkerAt(i, pc) == i \in DOMAIN workers /\ workers[i].pc = pc

MoveWorker(i, pc) == workers' = [workers EXCEPT ![i].pc = pc]

\* a click on a prayer button: play_tefilla(t) on the main thread
PlayTefilla(t) ==
    /\ IF is_playing
       THEN /\ ui_event' = "Already Playing"
            /\ UNCHANGED workers
       ELSE /\ Len(workers) < MaxThreads
            /\ workers' = Append(workers, [tefilla_type |-> t, pc |-> "started"])
            /\ ui_event' = "thread.start"
    /\ UNCHANGED <<is_playing, current_process>>
    /\ UNCHANGED <<engine_vars, rain_vars, builder_vars, chunk_vars>>

\* the thread gets to run: self.is_playing = True, then build_tefilla_for_date
WorkerBegins(i) ==
    /\ WorkerAt(i, "started")
    /\ is_playing' = TRUE
    /\ MoveWorker(i, "building")
    /\ ui_event' = "Building"
    /\ UNCHANGED current_process
    /\ UNCHANGED <<engine_vars, rain_vars, builder_vars, chunk_vars>>

\* the build returned a file: _play_audio_file starts the player and waits
WorkerPlays(i) ==
    /\ WorkerAt(i, "building")
    /\ current_process' = i
    /\ MoveWorker(i, "playing")
    /\ ui_event' = "Playing"
    /\ UNCHANGED is_playing
    /\ UNCHANGED <<engine_vars, rain_vars, builder_vars, chunk_vars>>

\* the build raised: the except clause reports it, the finally clause runs
WorkerFails(i) ==
    /\ WorkerAt(i, "building")
    /\ is_playing' = FALSE
    /\ MoveWorker(i, "done")
    /\ ui_event' = "Error"
    /\ UNCHANGED current_process
    /\ UNCHANGED <<engine_vars, rain_vars, builder_vars, chunk_vars>>

\* the player process ended or was terminated: wait() returns, the finally
\* clause runs
WorkerCompletes(i) ==
    /\ WorkerAt(i, "playing")
    /\ is_playing' = FALSE
    /\ MoveWorker(i, "done")
    /\ ui_event' = "Ready to play prayers"
    /\ UNCHANGED current_process
    /\ UNCHANGED <<engine_vars, rain_vars, builder_vars, chunk_vars>>

\* a click on the stop button, which a worker shows while it builds or plays
StopPlayback ==
    /\ \E i \in DOMAIN workers : workers[i].pc \in {"building", "playing"}
    /\ current_process' = "None"
    /\ is_playing' = FALSE
    /\ ui_event' = "Playback stopped"
    /\ UNCHANGED workers
    /\ UNCHANGED <<engine_vars, rain_vars, builder_vars, chunk_vars>>

NextUI ==
    \/ \E t \in TefillaTypes : PlayTefilla(t)
    \/ \E i \in 1..MaxThreads : WorkerBegins(i)
    \/ \E i \in 1..MaxThreads : WorkerPlays(i)
    \/ \E i \in 1..MaxThreads : WorkerFails(i)
    \/ \E i \in 1..MaxThreads : WorkerCompletes(i)
    \/ StopPlayback

SpecUI == Constructed(AnnotationPool, date(LastYear, 1, 1)) /\ [][NextUI]_vars

---------------------------------------------------------------------------
(* The chunk cache: ChunkProcessor.process_chunk and ChunkCache *)

\* chunk names of TEXT_MAP
ChunkKeys == {"ashrei", "aleinu"}

\* texts a chunk of TEXT_MAP has had over time: a text, the same text with
\* cantillation marks, and an edited text
Texts == {"v1", "v1_marks", "v2"}

\* ChunkCache.is_chunk_cached
is_chunk_cached(chunk_name, text_checksum) ==
    IF chunk_name \in DOMAIN directory
    THEN /\ directory[chunk_name].checksum = text_checksum
         /\ chunk_name \in DOMAIN cache_files
    ELSE FALSE

\* process_chunk(key, text) up to the end of the synthesis of the sentences,
\* or to its return when the chunk is cached
ProcessChunk(key, text) ==
    /\ process_pc = "idle"
    /\ process_args' = [key |-> key, text |-> text]
    /\ IF is_chunk_cached(key, calculate_text_checksum(clean_text(text)))
       THEN process_pc' = "idle"
       ELSE process_pc' = "synthesized"
    /\ UNCHANGED <<directory, cache_files>>
    /\ UNCHANGED <<engine_vars, rain_vars, builder_vars, ui_vars>>

\* self.combine_mp3s(sentence_files, chunk_mp3_path)
CombineMp3s ==
    /\ process_pc = "synthesized"
    /\ cache_files' = DictSet(cache_files, process_args.key, clean_text(process_args.text))
    /\ process_pc' = "combined"
    /\ UNCHANGED <<directory, process_args>>
    /\ UNCHANGED <<engine_vars, rain_vars, builder_vars, ui_vars>>

\* self.chunk_cache.update_directory(key, text_checksum), then the return
UpdateDirectory ==
    /\ process_pc = "combined"
    /\ directory' = DictSet(directory, process_args.key,
           [checksum |-> calculate_text_checksum(clean_text(process_args.text))])
    /\ process_pc' = "idle"
    /\ UNCHANGED <<cache_files, process_args>>
    /\ UNCHANGED <<engine_vars, rain_vars, builder_vars, ui_vars>>

\* the run ends before process_chunk returns: an exception of the next
\* statement, or the process is interrupted
ProcessChunkFails ==
    /\ process_pc \in {"synthesized", "combined"}
    /\ process_pc' = "idle"
    /\ UNCHANGED <<directory, cache_files, process_args>>
    /\ UNCHANGED <<engine_vars, rain_vars, builder_vars, ui_vars>>

NextChunks ==
    \/ \E key \in ChunkKeys : \E text \in Texts : ProcessChunk(key, text)
    \/ CombineMp3s
    \/ UpdateDirectory
    \/ ProcessChunkFails

SpecChunks == Constructed(AnnotationPool, date(LastYear, 1, 1)) /\ [][NextChunks]_vars

---------------------------------------------------------------------------
(* The build pipeline: TefillaBuilder.build_tefilla and clear_cache *)

\* annotations conditioned on the two fields the checksum leaves out, listed
\* before one for the weekday mornings and evenings; none applies to the
\* mincha of an ordinary weekday
BuilderPool ==
    << ChunkAnnotation("sefirat_haomer", AllTypes,
           <<Cond("sefirat_haomer", PyDict([min |-> 1, max |-> 49]))>>),
       ChunkAnnotation("aneinu", {"shacharis", "mincha"}, <<Cond("fast_day", PyBool(TRUE))>>),
       ChunkAnnotation("test_weekday", {"shacharis", "maariv"},
           <<Cond("day_of_week", PyStr("weekday"))>>) >>

\* the dates the builder is asked for: a day of the omer, the fast of 17
\* Tammuz and two ordinary weekdays
BuilderDates ==
    {date(2026, 4, 20), date(2026, 7, 2), date(2026, 7, 6), date(2026, 7, 7)}

\* what build_tefilla hands back: the path it returns, in a list of one, and
\* whether it combined the chunks for it, or the error it raises
Returned(path, built) == [path |-> <<path>>, built |-> built, raised |-> "None"]

Raised(error) == [path |-> <<>>, built |-> FALSE, raised |-> error]

\* build_tefilla from the call of the rule engine on: ValueError for an empty
\* list, else the chunks are processed and combined and the cache is written
BuildAndCache(chunk_list, cache_key, conditions_checksum) ==
    IF chunk_list = <<>>
    THEN /\ build_result' = Raised("ValueError")
         /\ UNCHANGED <<tefilla_cache, output_files, directory, cache_files>>
    ELSE LET processed(missing_chunks, cleaned_text) ==
                 /\ cache_files' = DictSetAll(cache_files, missing_chunks, cleaned_text)
                 /\ directory' = DictSetAll(directory, missing_chunks,
                                      [checksum |-> calculate_text_checksum(cleaned_text)])
         IN /\ processed(missing_chunks_of(chunk_list, directory, cache_files),
                         clean_text(TextOf))
            /\ output_files' =
                   DictSet(output_files, cache_key,
                       chunk_paths_of(chunk_list, directory, cache_files))
            /\ tefilla_cache' =
                   CacheSet(tefilla_cache,
                       [cache_key |-> cache_key,
                        tefilla_type |-> tefilla_type',
                        original_date |-> target_date',
                        conditions_checksum |-> conditions_checksum,
                        chunk_list |-> chunk_list,
                        output_file |-> cache_key])
            /\ build_result' = Returned(cache_key, TRUE)

\* TefillaBuilder.build_tefilla(t, d, force)
BuilderBuildTefilla(t, d, force) ==
    LET from_conditions(conditions) ==
            LET with_names(conditions_checksum, cache_key) ==
                    LET with_existing(existing_file) ==
                            IF existing_file # <<>>
                            THEN /\ build_result' = Returned(existing_file[1], FALSE)
                                 /\ selected_chunks' = <<>>
                                 /\ UNCHANGED <<tefilla_cache, output_files,
                                                directory, cache_files>>
                            ELSE /\ selected_chunks' = build_tefilla(chunk_annotations, t, d)
                                 /\ BuildAndCache(selected_chunks', cache_key,
                                                  conditions_checksum)
                    IN with_existing(existing_tefilla(tefilla_cache, output_files, force,
                                                      conditions_checksum, t, cache_key))
                with_checksum(conditions_checksum) ==
                    with_names(conditions_checksum,
                               CacheKey(generate_meaningful_filename(t, conditions),
                                        conditions_checksum))
            IN /\ date_conditions' = conditions
               /\ with_checksum(generate_conditions_checksum(conditions))
    IN /\ op' = "TefillaBuilder.build_tefilla"
       /\ tefilla_type' = t
       /\ target_date' = d
       /\ force_rebuild' = force
       /\ hebrew_date' = query_hebrew_date(d, t)
       /\ from_conditions(get_date_conditions(d, t))
       /\ UNCHANGED <<annotations, chunk_annotations, process_pc, process_args>>
       /\ UNCHANGED <<rain_vars, ui_vars>>

\* TefillaBuilder.clear_cache()
ClearCache ==
    /\ op' = "TefillaBuilder.clear_cache"
    /\ tefilla_cache' = <<>>
    /\ output_files' = [f \in {} |-> f]
    /\ UNCHANGED <<annotations, chunk_annotations, tefilla_type, target_date, hebrew_date,
                   date_conditions, selected_chunks, force_rebuild, build_result>>
    /\ UNCHANGED <<rain_vars, chunk_vars, ui_vars>>

NextBuilder ==
    \/ \E t \in TefillaTypes : \E d \in BuilderDates : \E force \in BOOLEAN :
           BuilderBuildTefilla(t, d, force)
    \/ ClearCache

SpecBuilder == Constructed(BuilderPool, date(2026, 1, 1)) /\ [][NextBuilder]_vars

---------------------------------------------------------------------------
(* Properties *)

Queried == op # "init"

\* 15 Nisan of the Hebrew year whose spring falls in civil year y
PesachOfCivilYear(y) == to_pydate(HebrewDate(y + 3760, 1, 15))

\* C1: nightfall correction. The maariv snapshot of civil date D equals the
\* shacharis snapshot of D+1 in holiday, rosh_chodesh, chol_hamoed,
\* sefirat_haomer and aseret_yemei_teshuvah.
NightfallCorrection ==
    (Queried /\ tefilla_type = "maariv") =>
        LET morning == get_date_conditions(NextCivilDay(target_date), "shacharis")
        IN /\ date_conditions.holiday = morning.holiday
           /\ date_conditions.rosh_chodesh = morning.rosh_chodesh
           /\ date_conditions.chol_hamoed = morning.chol_hamoed
           /\ date_conditions.sefirat_haomer = morning.sefirat_haomer
           /\ date_conditions.aseret_yemei_teshuvah = morning.aseret_yemei_teshuvah

\* a maariv said on the eve of Rosh Hashana already carries the holiday
NightfallWitness ==
    /\ op = "get_date_conditions"
    /\ tefilla_type = "maariv"
    /\ from_pydate(target_date).month = 6
    /\ date_conditions.holiday = "rosh_hashana"
    /\ date_conditions.rosh_chodesh

\* an annotation belongs to the service of the last call: its tefilla_types
\* hold the service type and every one of its conditions matches the snapshot
Applies(annotation) ==
    /\ tefilla_type \in annotation.tefilla_types
    /\ \A i \in 1..Len(annotation.conditions) :
           condition_matches(annotation.conditions[i].key,
                             annotation.conditions[i].value, date_conditions)

\* C2: build_tefilla returns exactly the names of the supplied annotations
\* that apply, in the order they were supplied to the engine.
BuildSelectsInOrder ==
    op = "build_tefilla" =>
        selected_chunks = NamesOf(SelectSeq(annotations, Applies))

\* two annotations supplied in non-alphabetical order, both selected, and
\* one supplied annotation dropped from another list
BuildSelectsWitness ==
    /\ op = "build_tefilla"
    /\ NamesOf(annotations) = <<"test_weekday", "aleinu">>
    /\ selected_chunks = <<"test_weekday", "aleinu">>

\* C3: veten_tal_umattar is true for every service on every civil date
\* strictly between the December start date and the first day of Passover of
\* the following spring (January, February and March included), and false on
\* every civil date strictly after that day and before the next start date.
RainWindowAsClaimed ==
    Queried =>
        LET y == target_date.year
            inside == \/ DateLT(veten_tal_start(y), target_date)
                      \/ DateLT(target_date, PesachOfCivilYear(y))
            outside == /\ DateLT(PesachOfCivilYear(y), target_date)
                       /\ DateLT(target_date, veten_tal_start(y))
        IN /\ inside => date_conditions.veten_tal_umattar
           /\ outside => ~date_conditions.veten_tal_umattar

\* C4: on the civil start date (December 4, or 5 before a leap year)
\* veten_tal_umattar is true for maariv and false for shacharis and mincha.
RainStartAsClaimed ==
    (Queried /\ target_date = veten_tal_start(target_date.year)) =>
        (date_conditions.veten_tal_umattar <=> tefilla_type = "maariv")

\* the services from the maariv that begins 22 Tishrei up to and including
\* the maariv that begins 15 Nisan, by the Hebrew day they belong to
InWindSeason(h, t) ==
    \/ h.month = 7 /\ h.day >= 22
    \/ h.month \in 8..13
    \/ h.month = 1 /\ h.day <= 14
    \/ h.month = 1 /\ h.day = 15 /\ t = "maariv"

\* C5: mashiv_haruach is true for every service from the maariv that begins
\* 22 Tishrei up to and including the maariv that begins 15 Nisan, in
\* ordinary years and in leap years.
WindSeasonAsClaimed ==
    (Queried /\ InWindSeason(hebrew_date, tefilla_type)) => date_conditions.mashiv_haruach

WindFirstDayAsTested ==
    (Queried /\ from_pydate(target_date).month = 1 /\ from_pydate(target_date).day = 15) =>
        (date_conditions.mashiv_haruach <=> tefilla_type = "shacharis")

\* C8: on every intermediate day of Passover the morning snapshot has
\* hallel_type "partial"; "full" is produced only on the first two days of
\* Passover.
PassoverHallelAsClaimed ==
    (Queried /\ date_conditions.holiday = "pesach") =>
        /\ (tefilla_type = "shacharis" /\ date_conditions.chol_hamoed) =>
               date_conditions.hallel_type = "partial"
        /\ date_conditions.hallel_type = "full" => hebrew_date.day \in {15, 16}

\* C9: on an intermediate festival day that is an ordinary weekday
\* full_shmoneh_esreh is true.
CholHamoedFullShmonehEsrehAsClaimed ==
    (Queried /\ date_conditions.chol_hamoed /\ date_conditions.day_of_week = "weekday") =>
        date_conditions.full_shmoneh_esreh

\* C10: shacharis of 1 Tishrei on a weekday has holiday rosh_hashana,
\* aseret_yemei_teshuvah true, full_shmoneh_esreh false and hallel_type "full".
RoshHashanaAsClaimed ==
    (/\ Queried
     /\ tefilla_type = "shacharis"
     /\ hebrew_date.month = 7 /\ hebrew_date.day = 1
     /\ date_conditions.day_of_week = "weekday") =>
        /\ date_conditions.holiday = "rosh_hashana"
        /\ date_conditions.aseret_yemei_teshuvah
        /\ ~date_conditions.full_shmoneh_esreh
        /\ date_conditions.hallel_type = "full"

HebrewDateProbes == {HebrewDate(y, m, d) : y \in {5784, 5785}, m \in 1..13, d \in 1..30}

\* C12: hallel_type is one of "none", "partial", "full" and is decided by
\* holiday, rosh_chodesh and sefirat_haomer alone: whatever Hebrew date is
\* supplied with the three fields of the snapshot, the result is the
\* hallel_type of the snapshot.
HallelDeterminedByThreeFields ==
    Queried =>
        /\ date_conditions.hallel_type \in {"none", "partial", "full"}
        /\ \A h \in HebrewDateProbes :
               calculate_hallel_type(h, date_conditions.holiday, date_conditions.rosh_chodesh,
                                     date_conditions.sefirat_haomer)
                   = date_conditions.hallel_type

\* a new-month day that is the 30th of its month, outside the omer and the
\* holidays: it shares its three fields with the first of every such month
HallelDeterminedWitness ==
    /\ Queried
    /\ hebrew_date.day = 30
    /\ date_conditions.rosh_chodesh
    /\ date_conditions.holiday = "None"
    /\ date_conditions.sefirat_haomer = 0
    /\ date_conditions.hallel_type = "partial"

\* C13: holiday is "pesach" on each of the eight Hebrew days 15..22 Nisan
\* and is not "pesach" on 14 Nisan or 23 Nisan.
PesachEightDaysAsClaimed ==
    (Queried /\ hebrew_date.month = 1) =>
        /\ hebrew_date.day \in 15..22 => date_conditions.holiday = "pesach"
        /\ hebrew_date.day \in {14, 23} => date_conditions.holiday # "pesach"

\* the days of the Hebrew date h after 25 Kislev of its year
DaysFrom25Kislev(h) == HebrewToOrdinal(h) - HebrewToOrdinal(HebrewDate(h.year, 9, 25))

\* C14: whether Kislev has 29 or 30 days, holiday is "chanukkah" on exactly
\* the eight consecutive Hebrew days beginning 25 Kislev, and not on the
\* ninth.
ChanukkahEightDaysAsClaimed ==
    (Queried /\ hebrew_date.month \in {9, 10}) =>
        (date_conditions.holiday = "chanukkah" <=> DaysFrom25Kislev(hebrew_date) \in 0..7)

CholHamoedAsTested ==
    Queried =>
        /\ (hebrew_date.month \in {1, 7} /\ hebrew_date.day = 16) =>
               ~date_conditions.chol_hamoed
        /\ (hebrew_date.month = 7 /\ hebrew_date.day \in 17..21) =>
               date_conditions.chol_hamoed
        /\ (hebrew_date.month = 1 /\ hebrew_date.day \in 17..20) =>
               date_conditions.chol_hamoed

\* the Hebrew dates from 16 Nisan through 5 Sivan
InOmerWindow(h) ==
    \/ h.month = 1 /\ h.day >= 16
    \/ h.month = 2
    \/ h.month = 3 /\ h.day <= 5

SnapshotKeys ==
    {"day_of_week", "holiday", "rosh_chodesh", "chol_hamoed", "fast_day",
     "aseret_yemei_teshuvah", "sefirat_haomer", "mashiv_haruach",
     "veten_tal_umattar", "hallel_type", "full_shmoneh_esreh"}

\* the value of a field of the snapshot, as a Python value
SnapshotValue(conditions, key) ==
    IF key \in {"day_of_week", "hallel_type"} THEN PyStr(conditions[key])
    ELSE IF key = "holiday" THEN OptStr(conditions[key])
    ELSE IF key = "sefirat_haomer" THEN PyInt(conditions[key])
    ELSE PyBool(conditions[key])

\* a condition matches as C19 has it: a list under a snapshot key by
\* membership, anything else as the engine decides
MatchesWithLists(condition) ==
    IF condition.key \in SnapshotKeys /\ condition.value.kind = "list"
    THEN PyIn(SnapshotValue(date_conditions, condition.key), condition.value)
    ELSE condition_matches(condition.key, condition.value, date_conditions)

\* the names build_tefilla returned
Selected == {selected_chunks[i] : i \in 1..Len(selected_chunks)}

\* C19: a list-valued condition matches iff the snapshot field's value is a
\* member of the list, for every snapshot key: build_tefilla returns an
\* annotation iff its tefilla_types hold the service and each of its
\* conditions matches, a list by membership.
ListConditionsAsClaimed ==
    op = "build_tefilla" =>
        \A i \in 1..Len(annotations) :
            annotations[i].name \in Selected <=>
                /\ tefilla_type \in annotations[i].tefilla_types
                /\ \A j \in 1..Len(annotations[i].conditions) :
                       MatchesWithLists(annotations[i].conditions[j])

\* the keys _condition_matches has a branch for
RecognisedKeys == SnapshotKeys \cup {"always"}

\* an annotation declares a key the engine does not recognise
HasUnknownKey(annotation) ==
    \E j \in 1..Len(annotation.conditions) : annotation.conditions[j].key \notin RecognisedKeys

\* C20: an annotation that declares a condition key the engine does not
\* recognise never matches: for the snapshot of every date and every service
\* type chunk_matches_conditions is false for it, and build_tefilla never
\* returns it.
UnknownKeyNeverMatches ==
    Queried =>
        \A i \in 1..Len(annotations) :
            HasUnknownKey(annotations[i]) =>
                /\ annotations[i].name \notin Selected
                /\ \A t \in TefillaTypes :
                       ~chunk_matches_conditions(annotations[i], t, date_conditions)

\* a Shabbat morning built from a registry in which an annotation joins an
\* unknown key to conditions that all hold; only the unconditional one and
\* the lists the engine reads are returned
UnknownKeyWitness ==
    /\ op = "build_tefilla"
    /\ tefilla_type = "shacharis"
    /\ date_conditions.day_of_week = "shabbat"
    /\ \E i \in 1..Len(annotations) :
           /\ annotations[i].name = "yom_tov"
           /\ HasUnknownKey(annotations[i])
    /\ "aleinu" \in Selected
    /\ "yom_tov" \notin Selected
    /\ "parsha" \notin Selected

HasMalformedShape(annotation) ==
    \E j \in 1..Len(annotation.conditions) :
        /\ annotation.conditions[j].key = "sefirat_haomer"
        /\ ~IsNumber(annotation.conditions[j].value)
        /\ annotation.conditions[j].value.kind # "dict"

\* C21: an annotation with an unrecognised condition key or a malformed
\* range/list shape is rejected when the registry is loaded, so no
\* build_tefilla is ever evaluated against such an annotation.
ValidatedBeforeQuery ==
    op = "build_tefilla" =>
        \A i \in 1..Len(chunk_annotations) :
            /\ ~HasUnknownKey(chunk_annotations[i])
            /\ ~HasMalformedShape(chunk_annotations[i])

\* C22: a service type outside {shacharis, mincha, maariv} is rejected before
\* any snapshot is computed or any annotation is examined: no call with such
\* a type returns a snapshot or a list.
UnknownServiceRejected ==
    tefilla_type \in UnknownTypes => op \notin {"get_date_conditions", "build_tefilla"}

\* C25: the start date of the rain insertion in civil year Y is December 5
\* exactly when Y+1 is a Gregorian leap year (divisible by 4 and not by 100,
\* or divisible by 400) and December 4 otherwise.
RainStartDate ==
    op = "veten_tal_start" =>
        LET Y == target_date.year
            leap == \/ (Y + 1) % 4 = 0 /\ (Y + 1) % 100 # 0
                    \/ (Y + 1) % 400 = 0
        IN /\ veten_tal_start_date.year = Y
           /\ veten_tal_start_date.month = 12
           /\ leap => veten_tal_start_date.day = 5
           /\ ~leap => veten_tal_start_date.day = 4

\* the start computed in 1999, before the leap year 2000, and the one
\* computed in 2099, before 2100, which is divisible by 4 and not a leap year
RainStartDateWitness ==
    /\ op = "veten_tal_start"
    /\ \/ target_date.year = 1999 /\ veten_tal_start_date = date(1999, 12, 5)
       \/ target_date.year = 2099 /\ veten_tal_start_date = date(2099, 12, 4)

\* the worker threads that are building or playing
ActiveWorkers == {i \in DOMAIN workers : workers[i].pc \in {"building", "playing"}}

\* C30: at most one build-and-play worker is building or playing at any
\* time, under every interleaving of clicks, worker start-up, stop_playback
\* and worker completion, and is_playing is true whenever a worker is active.
OneWorkerAtATime ==
    /\ Cardinality(ActiveWorkers) <= 1
    /\ ActiveWorkers # {} => is_playing

\* C29: in every reachable state of process_chunk, the states after a failed
\* or interrupted run included, whenever is_chunk_cached(key, c) is true the
\* file at the chunk's cache path holds audio synthesised from the text whose
\* checksum is c.
ChunkCacheCoherent ==
    \A key \in ChunkKeys : \A text \in Texts :
        is_chunk_cached(key, calculate_text_checksum(clean_text(text))) =>
            cache_files[key] = clean_text(text)

BuilderCalled == op = "TefillaBuilder.build_tefilla"

\* C23: when no annotation matches a valid (service type, date) the result
\* is an empty list and not an error: the rule engine returns [] and the
\* build pipeline that consumes it does not raise.
EmptyResultNotAnError ==
    (BuilderCalled /\ build_tefilla(chunk_annotations, tefilla_type, target_date) = <<>>) =>
        build_result.raised = "None"

\* C27: the build cache is keyed by the snapshot, not by the date. Once
\* build_tefilla(type, D1) has succeeded and its output file still exists, a
\* call build_tefilla(type, D2) without force_rebuild, for a date D2 whose
\* snapshot equals that of D1, returns the same file without combining audio
\* again and without changing the cache table.
CacheKeyedBySnapshot ==
    [][\A i \in 1..Len(tefilla_cache) :
          (/\ op' = "TefillaBuilder.build_tefilla"
           /\ ~force_rebuild'
           /\ tefilla_cache[i].tefilla_type = tefilla_type'
           /\ tefilla_cache[i].output_file \in DOMAIN output_files
           /\ get_date_conditions(tefilla_cache[i].original_date, tefilla_type')
                  = date_conditions')
          => /\ build_result' = Returned(tefilla_cache[i].output_file, FALSE)
             /\ tefilla_cache' = tefilla_cache
             /\ output_files' = output_files]_vars

\* a file built for one date is handed back for another date with the same
\* snapshot
CacheKeyedBySnapshotWitness ==
    /\ BuilderCalled
    /\ ~force_rebuild
    /\ ~build_result.built
    /\ \E i \in 1..Len(tefilla_cache) :
           /\ build_result.path = <<tefilla_cache[i].output_file>>
           /\ tefilla_cache[i].tefilla_type = tefilla_type
           /\ tefilla_cache[i].original_date # target_date
           /\ get_date_conditions(tefilla_cache[i].original_date, tefilla_type)
                  = date_conditions

\* C28: cache soundness. Whenever a call of TefillaBuilder.build_tefilla
\* returns an existing file without rebuilding, the chunk list that file was
\* combined from equals the chunk list the rule engine selects for the
\* requested service type and date, also with annotations conditioned on
\* sefirat_haomer or fast_day in the registry.
CacheSound ==
    (BuilderCalled /\ build_result.path # <<>> /\ ~build_result.built) =>
        output_files[build_result.path[1]]
            = build_tefilla(chunk_annotations, tefilla_type, target_date)

====
